---- MODULE Spec2Model ----
(***************************************************************************)
(* Model of the Hespress scraper (src/scraper.py): the ingestion pipeline  *)
(* scrape_hespress with its store operations (create_table,                *)
(* article_exists, insert_article), the two fetch-and-parse functions and  *)
(* the pure helpers it calls.                                              *)
(*                                                                         *)
(* Text is a sequence of one-character strings.  Arabic letters are        *)
(* written with one Latin letter each:                                     *)
(*   y=ya n=nun a=alif r=ra f=fa b=ba m=mim s=sin A=alif-hamza l=lam       *)
(*   w=waw z=zay g=ghayn x=shin t=ta k=kaf d=dal j=jim T=tah               *)
(* Python's None is the one-element sequence <<"None">>, which no text     *)
(* equals because every element of a text is a single character.           *)
(***************************************************************************)
EXTENDS Integers, Sequences, FiniteSets, TLC

\* ---------------------------------------------------------------------------
\* Bounds of the model
\* ---------------------------------------------------------------------------
\* Listing pages are numbered 1..MaxPage; start_page and end_page are drawn
\* from them.
MaxPage == 3
\* Failures (a failed fetch, a failed statement) the environment injects in one
\* behaviour, over all runs.
MaxFaults == 1
\* A date text given to normalize_moroccan_months has at most MaxWords words,
\* separated by single spaces.
MaxWords == 2
\* A URL given to extract_post_id_from_url is made of at most MaxParts parts.
MaxParts == 4

Pages == 1..MaxPage

\* Two runs of scrape_hespress against the same store.  The second may start
\* while the first is still going, or after it has finished.
Runs == {1, 2}

None == <<"None">>
EmptyStr == <<>>

\* Python truthiness of an optional text: None and "" are falsy.
Truthy(t) == t # None /\ t # EmptyStr

\* ---------------------------------------------------------------------------
\* Date normalisation
\* ---------------------------------------------------------------------------
\* Variant: the name written for August is the name another entry replaces.
MOROCCAN_MONTHS_MAP_chained ==
    << << <<"y","n","a","y","r">>,         <<"y","n","a","y","r">> >>,
       << <<"f","b","r","a","y","r">>,     <<"f","b","r","a","y","r">> >>,
       << <<"m","a","r","s">>,             <<"m","a","r","s">> >>,
       << <<"A","b","r","y","l">>,         <<"A","b","r","y","l">> >>,
       << <<"m","a","y">>,                 <<"m","a","y","w">> >>,
       << <<"y","w","n","y","w">>,         <<"y","w","n","y","w">> >>,
       << <<"y","w","l","y","w","z">>,     <<"y","w","l","y","w">> >>,
       << <<"g","x","t">>,                 <<"m","a","y">>         >>,
       << <<"x","t","n","b","r">>,         <<"s","b","t","m","b","r">> >>,
       << <<"A","k","t","w","b","r">>,     <<"A","k","t","w","b","r">> >>,
       << <<"n","w","n","b","r">>,         <<"n","w","f","m","b","r">> >>,
       << <<"d","j","n","b","r">>,         <<"d","y","s","m","b","r">> >> >>

\* The dict literal, in insertion order (the order .items() iterates in).
MOROCCAN_MONTHS_MAP ==
    << << <<"y","n","a","y","r">>,         <<"y","n","a","y","r">> >>,
       << <<"f","b","r","a","y","r">>,     <<"f","b","r","a","y","r">> >>,
       << <<"m","a","r","s">>,             <<"m","a","r","s">> >>,
       << <<"A","b","r","y","l">>,         <<"A","b","r","y","l">> >>,
       << <<"m","a","y">>,                 <<"m","a","y","w">> >>,
       << <<"y","w","n","y","w">>,         <<"y","w","n","y","w">> >>,
       << <<"y","w","l","y","w","z">>,     <<"y","w","l","y","w">> >>,
       << <<"g","x","t">>,                 <<"A","g","s","T","s">> >>,
       << <<"x","t","n","b","r">>,         <<"s","b","t","m","b","r">> >>,
       << <<"A","k","t","w","b","r">>,     <<"A","k","t","w","b","r">> >>,
       << <<"n","w","n","b","r">>,         <<"n","w","f","m","b","r">> >>,
       << <<"d","j","n","b","r">>,         <<"d","y","s","m","b","r">> >> >>

\* s starts with p at position i (1-based).
MatchAt(s, p, i) ==
    /\ i + Len(p) - 1 <= Len(s)
    /\ \A k \in 1..Len(p) : s[i + k - 1] = p[k]

\* str.replace(old, new) for a non-empty old: every non-overlapping
\* occurrence, scanning from the left.
RECURSIVE ReplaceFrom(_, _, _, _)
ReplaceFrom(s, old, new, i) ==
    IF i > Len(s) THEN <<>>
    ELSE IF MatchAt(s, old, i)
         THEN new \o ReplaceFrom(s, old, new, i + Len(old))
         ELSE <<s[i]>> \o ReplaceFrom(s, old, new, i + 1)

\* old occurs in s.
Occurs(s, old) == \E i \in 1..(Len(s) - Len(old) + 1) : s[i] = old[1] /\ MatchAt(s, old, i)

\* Without an occurrence the string is returned as it is.
Replace(s, old, new) == IF Occurs(s, old) THEN ReplaceFrom(s, old, new, 1) ELSE s

\* The for loop over MOROCCAN_MONTHS_MAP.items(), entries k..12.
RECURSIVE ReplaceAllFrom(_, _)
ReplaceAllFrom(s, k) ==
    IF k > Len(MOROCCAN_MONTHS_MAP) THEN s
    ELSE ReplaceAllFrom(Replace(s, MOROCCAN_MONTHS_MAP[k][1],
                                   MOROCCAN_MONTHS_MAP[k][2]), k + 1)

\* Variant: the text is returned as it was given.
normalize_moroccan_months_unchanged(date_text) == date_text

normalize_moroccan_months(date_text) ==
    IF ~Truthy(date_text) THEN date_text ELSE ReplaceAllFrom(date_text, 1)

\* dateparser.parse is a library outside the repository.  Its result is
\* represented by the text it was given, tagged as a timestamp: two calls
\* return the same timestamp exactly when they were given the same text.
dateparser_parse(text) == <<"datetime">> \o text

parse_arabic_date(date_text_ar) ==
    IF ~Truthy(date_text_ar) THEN None
    ELSE dateparser_parse(normalize_moroccan_months(date_text_ar))

\* ---------------------------------------------------------------------------
\* Post id from URL
\* ---------------------------------------------------------------------------
IsDigit(c) == c \in {"0","1","2","3","4","5","6","7","8","9"}

DotHtml == <<".","h","t","m","l">>

\* Positions at which '$' matches: the end of the string, and just before a
\* final newline.
DollarEnds(u) ==
    {Len(u)} \cup (IF Len(u) > 0 /\ u[Len(u)] = "\n" THEN {Len(u) - 1} ELSE {})

\* <<h, e>>: u[h] is the hyphen, u[h+1..e-5] a non-empty run of digits,
\* u[e-4..e] is ".html" and '$' matches after position e.
PostIdMatches(u) ==
    {m \in (1..Len(u)) \X DollarEnds(u) :
        /\ m[2] - 5 > m[1]
        /\ u[m[1]] = "-"
        /\ \A k \in (m[1] + 1)..(m[2] - 5) : IsDigit(u[k])
        /\ MatchAt(u, DotHtml, m[2] - 4)}

extract_post_id_from_url(article_url) ==
    IF PostIdMatches(article_url) = {} THEN EmptyStr
    ELSE LET m == CHOOSE x \in PostIdMatches(article_url) :
                     \A y \in PostIdMatches(article_url) : x[1] <= y[1]
         IN  SubSeq(article_url, m[1] + 1, m[2] - 5)

\* ---------------------------------------------------------------------------
\* Python dict access
\* ---------------------------------------------------------------------------
\* {} : parse_article_content's result when the fetch failed.
EmptyDict == [k \in {} |-> None]

\* d.get(key, default)
Get(d, key, default) == IF key \in DOMAIN d THEN d[key] ELSE default

\* ---------------------------------------------------------------------------
\* The site: what the listing and article pages hold
\* ---------------------------------------------------------------------------
IsSpace(c) == c \in {" ", "\n", "\t"}

\* str.strip()
RECURSIVE LStrip(_)
LStrip(s) == IF s # <<>> /\ IsSpace(Head(s)) THEN LStrip(Tail(s)) ELSE s

RECURSIVE RStrip(_)
RStrip(s) ==
    IF s # <<>> /\ IsSpace(s[Len(s)]) THEN RStrip(SubSeq(s, 1, Len(s) - 1)) ELSE s

Strip(s) == LStrip(RStrip(s))

\* A card of a listing document: href is None when the card has no
\* a.stretched-link; cat and time are None when the element is missing.
Card(href, title, cat, time) ==
    [href |-> href, title |-> title, cat |-> cat, time |-> time]

\* The div.card elements of listing page p, in document order.  The content
\* of a page is fixed for the whole behaviour.
ListingDocument(p) ==
    CASE p = 1 ->
           << Card(<<"a","-","1",".","h","t","m","l">>, <<"t","1">>,
                   <<"c">>, <<"3"," ","m","a","y">>),
              Card(None, <<>>, None, None),
              Card(<<" ","b",".","h","t","m","l">>, <<"t","2">>, None, None) >>
      [] p = 2 -> << >>
      [] p = 3 ->
           << Card(<<"a","-","1",".","h","t","m","l">>, <<"t","1">>,
                   <<"c">>, None),
              Card(<<"d",".","h","t","m","l">>, <<"t","3">>,
                   <<"c">>, <<"5"," ","g","x","t">>) >>
      [] OTHER ->
           << Card(<<"c","-","2","0",".","h","t","m","l">>, <<"t","4">>,
                   None, <<"1"," ","m","a","r","s">>) >>

\* The fields parse_article_content extracts from the page of an article
\* when its fetch succeeds.  The content of a page is fixed for the whole
\* behaviour.  The page of d.html has no span.date-post.
DetailDocument(article_url) ==
    IF article_url = <<"d",".","h","t","m","l">>
    THEN [author |-> <<"w">>, content |-> <<"x","1">>, featured_image |-> <<>>,
          date_text_ar |-> <<>>, tags |-> <<>>]
    ELSE [author |-> <<>>, content |-> <<"x","2">>, featured_image |-> <<"i">>,
          date_text_ar |-> <<"4"," ","d","j","n","b","r">>, tags |-> << <<"g">> >>]

\* Outcomes of requests.get: a status code, or a RequestException.
FetchOutcomes == {"200", "404", "RequestException"}

\* Outcomes of opening a connection and executing a statement.
DbOutcomes == {"ok", "Exception"}

\* ---------------------------------------------------------------------------
\* parse_listing_page: the cards of a fetched listing document -> summaries
\* ---------------------------------------------------------------------------
RECURSIVE ExtractSummaries(_)
ExtractSummaries(cards) ==
    IF cards = <<>> THEN <<>>
    ELSE LET div == Head(cards)
             article_url == IF div.href = None THEN EmptyStr ELSE Strip(div.href)
         IN  IF div.href = None \/ article_url = EmptyStr
             THEN ExtractSummaries(Tail(cards))
             ELSE << [postid |-> extract_post_id_from_url(article_url),
                      article_url |-> article_url,
                      category |-> div.cat,
                      title |-> Strip(div.title),
                      date_text_ar |-> div.time] >>
                  \o ExtractSummaries(Tail(cards))

parse_listing_page(page_number, outcome) ==
    IF outcome # "200" THEN <<>>
    ELSE ExtractSummaries(ListingDocument(page_number))

\* parse_article_content: {} unless the fetch returned 200.
parse_article_content(outcome, document) ==
    IF outcome # "200" THEN EmptyDict ELSE document

\* ---------------------------------------------------------------------------
\* Store (table hespress_articles: postid UNIQUE, article_url UNIQUE)
\* ---------------------------------------------------------------------------
\* Variant: ON CONFLICT (postid) DO UPDATE, an upsert that overwrites.
sql_insert_do_update(rows, row) ==
    IF \E old \in rows : old.postid = row.postid
    THEN [rows |-> {old \in rows : old.postid # row.postid} \cup {row},
          status |-> "inserted"]
    ELSE [rows |-> rows \cup {row}, status |-> "inserted"]

\* Variant: the table and statement of the earlier revision (src/main.py):
\* article_url alone is UNIQUE, ON CONFLICT (article_url) DO NOTHING.
sql_insert_conflict_on_url(rows, row) ==
    IF \E old \in rows : old.article_url = row.article_url
    THEN [rows |-> rows, status |-> "skipped"]
    ELSE [rows |-> rows \cup {row}, status |-> "inserted"]

\* Variant: a plain INSERT, without an ON CONFLICT clause.
sql_insert_no_on_conflict(rows, row) ==
    IF \E old \in rows : old.postid = row.postid \/ old.article_url = row.article_url
    THEN [rows |-> rows, status |-> "UniqueViolation"]
    ELSE [rows |-> rows \cup {row}, status |-> "inserted"]

\* Variant: the empty postid is stored as NULL, which the UNIQUE constraint
\* on postid does not compare.
sql_insert_empty_as_null(rows, row) ==
    IF row.postid # EmptyStr /\ \E old \in rows : old.postid = row.postid
    THEN [rows |-> rows, status |-> "skipped"]
    ELSE IF \E old \in rows : old.article_url = row.article_url
         THEN [rows |-> rows, status |-> "UniqueViolation"]
         ELSE [rows |-> rows \cup {row}, status |-> "inserted"]

\* SELECT 1 FROM hespress_articles WHERE postid = %s LIMIT 1
sql_select_postid(rows, postid) == \E row \in rows : row.postid = postid

\* INSERT ... ON CONFLICT (postid) DO NOTHING.  A conflict on postid is
\* absorbed; a conflict on article_url alone raises a unique violation.
sql_insert(rows, row) ==
    IF \E old \in rows : old.postid = row.postid
    THEN [rows |-> rows, status |-> "skipped"]
    ELSE IF \E old \in rows : old.article_url = row.article_url
         THEN [rows |-> rows, status |-> "UniqueViolation"]
         ELSE [rows |-> rows \cup {row}, status |-> "inserted"]

\* Variant: the answer of the query is not looked at.
article_exists_no_gate(postid, rows, db) ==
    IF ~Truthy(postid) THEN "no_query"
    ELSE IF db # "ok" THEN "Exception"
    ELSE "absent"

\* article_exists(postid): what the check came to.  "no_query": the postid
\* is empty and the store is not asked; "Exception": the connection or the
\* query failed (db # "ok"); otherwise the answer of the query.  The function
\* returns True in the case "found" alone.
article_exists(postid, rows, db) ==
    IF ~Truthy(postid) THEN "no_query"
    ELSE IF db # "ok" THEN "Exception"
    ELSE IF sql_select_postid(rows, postid) THEN "found"
    ELSE "absent"

\* insert_article(article_data): the rows afterwards and what the statement
\* came to.  Every exception is caught and logged.
insert_article(article_data, rows, db) ==
    IF db # "ok" THEN [rows |-> rows, status |-> "Exception"]
    ELSE sql_insert(rows, article_data)

\* ---------------------------------------------------------------------------
\* Merge of a listing summary and the detail of its article
\* ---------------------------------------------------------------------------
\* Variant: the operands of `or` exchanged.
effective_date_text_listing_first(summary_, detail) ==
    IF Truthy(summary_.date_text_ar)
    THEN summary_.date_text_ar
    ELSE Get(detail, "date_text_ar", None)

\* detail_data.get("date_text_ar") or summary["date_text_ar"]
effective_date_text(summary_, detail) ==
    IF Truthy(Get(detail, "date_text_ar", None))
    THEN Get(detail, "date_text_ar", None)
    ELSE summary_.date_text_ar

build_article_data(summary_, detail) ==
    LET date_text_ar == effective_date_text(summary_, detail)
        date_parsed == parse_arabic_date(date_text_ar)
    IN  [postid         |-> summary_.postid,
         article_url    |-> summary_.article_url,
         category       |-> summary_.category,
         title          |-> summary_.title,
         date_text_ar   |-> date_text_ar,
         date           |-> date_parsed,
         author         |-> Get(detail, "author", EmptyStr),
         content        |-> Get(detail, "content", EmptyStr),
         featured_image |-> Get(detail, "featured_image", EmptyStr),
         tags           |-> Get(detail, "tags", <<>>)]

\* ---------------------------------------------------------------------------
\* State
\* ---------------------------------------------------------------------------
VARIABLES
    start_page,              \* configuration: first page of the walk
    end_page,                \* configuration: last page of the walk
    table_exists,            \* the store: hespress_articles has been created
    store,                   \* the store: the rows of hespress_articles
    pc,                      \* per run: where scrape_hespress stands
    page_num,                \* per run: the loop variable over pages
    articles_summaries,      \* per run: the summaries of the current page
    idx,                     \* per run: position of the inner loop
    total_articles_fetched,  \* per run: the running count
    reported_total,          \* per run: the total printed at the end
    create_status,           \* per run: how create_table ended
    exists_result,           \* per run: how article_exists ended
    detail_status,           \* per run: how the detail fetch ended
    detail_data,             \* per run: the parse_article_content result
    insert_status,           \* per run: how insert_article ended
    listing_log,             \* per run: the listing fetches made, in order
    insert_errors,           \* per run: it has logged "Error inserting article"
    preds,                   \* per run: the runs that had ended when it began
    faults,                  \* environment: the failures injected so far
    slept_since_listing,     \* per run: time.sleep(1) ran since its last listing fetch
    slept_since_detail,      \* per run: time.sleep(0.5) ran since its last detail fetch
    call,                    \* a helper called on its own: which one
    argument,                \* a helper called on its own: its argument
    date_text,               \* normalize_moroccan_months: the text being rewritten
    applied,                 \* normalize_moroccan_months: the entries applied so far
    returned                 \* a helper called on its own: its result

\* The state of the runs of scrape_hespress and of their environment.
scrape_vars ==
    << start_page, end_page, table_exists, store, pc, page_num,
       articles_summaries, idx, total_articles_fetched, reported_total,
       create_status, exists_result, detail_status, detail_data,
       insert_status, listing_log, insert_errors, preds, faults,
       slept_since_listing, slept_since_detail >>

\* The state of a helper called on its own.
fn_vars == << call, argument, date_text, applied, returned >>

vars == << scrape_vars, fn_vars >>

\* No result yet: a value that is neither a text nor None.
Pending == <<"pending">>

\* No helper is called on its own.
Idle ==
    /\ call = "none"
    /\ argument = None
    /\ date_text = None
    /\ applied = {}
    /\ returned = Pending

\* Variant: the walk is always backward, as the docstring has it.
step_always_backward == 0 - 1

\* step = -1 if start_page > end_page else 1
step == IF start_page > end_page THEN -1 ELSE 1

\* p in range(start_page, end_page + step, step), for p reached from
\* start_page in steps of step.
InRange(p) == IF step > 0 THEN p < end_page + step ELSE p > end_page + step

\* The effective outcome of a statement: it fails when the connection fails
\* and when the table is missing.
DbResult(outcome) == IF outcome = "ok" /\ table_exists THEN "ok" ELSE "Exception"

\* The outcomes the environment can still produce, and the count of the
\* failures among them.
FetchChoices == IF faults < MaxFaults THEN FetchOutcomes ELSE {"200"}

DbChoices == IF faults < MaxFaults THEN DbOutcomes ELSE {"ok"}

Inject(outcome) ==
    faults' = IF outcome \in {"200", "ok"} THEN faults ELSE faults + 1

\* No run of scrape_hespress has begun, the store is without its table.
NoRun ==
    /\ table_exists = FALSE
    /\ store = {}
    /\ pc = [r \in Runs |-> "start"]
    /\ page_num = [r \in Runs |-> 0]
    /\ articles_summaries = [r \in Runs |-> <<>>]
    /\ idx = [r \in Runs |-> 0]
    /\ total_articles_fetched = [r \in Runs |-> 0]
    /\ reported_total = [r \in Runs |-> -1]
    /\ create_status = [r \in Runs |-> "none"]
    /\ exists_result = [r \in Runs |-> "none"]
    /\ detail_status = [r \in Runs |-> "none"]
    /\ detail_data = [r \in Runs |-> EmptyDict]
    /\ insert_status = [r \in Runs |-> "none"]
    /\ listing_log = [r \in Runs |-> <<>>]
    /\ insert_errors = [r \in Runs |-> FALSE]
    /\ preds = [r \in Runs |-> {}]
    /\ faults = 0
    /\ slept_since_listing = [r \in Runs |-> FALSE]
    /\ slept_since_detail = [r \in Runs |-> "no_fetch"]

\* The state before the first call: any range, a store without the table.
Init ==
    /\ start_page \in Pages
    /\ end_page \in Pages
    /\ Idle
    /\ NoRun

\* ---------------------------------------------------------------------------
\* scrape_hespress, one action per call it makes
\* ---------------------------------------------------------------------------
\* Variant: insert_article without its try/except.
except_clause_insert_unguarded(fn) ==
    CASE fn \in {"create_table", "article_exists"} -> "Exception"
      [] fn = "insert_article" -> "none"
      [] fn \in {"parse_listing_page", "parse_article_content"} -> "RequestException"

\* The exception class named by the except clause around the body of a
\* function.
except_clause(fn) ==
    CASE fn \in {"create_table", "article_exists", "insert_article"} -> "Exception"
      [] fn \in {"parse_listing_page", "parse_article_content"} -> "RequestException"

\* The outcome is an exception that the except clause of fn does not catch
\* (`except Exception` catches every class).
Propagates(fn, outcome) ==
    /\ outcome \in {"Exception", "RequestException"}
    /\ except_clause(fn) \notin {"Exception", outcome}

\* Where run r goes after a call of fn: on, or out of scrape_hespress with the
\* exception (nothing in scrape_hespress catches).
After(fn, outcome, next) == IF Propagates(fn, outcome) THEN "crashed" ELSE next

\* The summary the inner loop stands at.
summary(r) == articles_summaries[r][idx[r]]

\* Variant: one is added for each page.
count_summaries_per_page(total, result) == total + 1

\* total_articles_fetched += len(articles_summaries)
count_summaries(total, result) == total + Len(result)

\* `continue` on a page without summaries: on to the next page of the range
\* (the page delay is skipped).
on_empty_listing(p) == p + step

\* The end of an iteration of the inner loop: the next summary of the page,
\* or, after the last one, the page delay.  The results of the iteration are
\* dead from here on (each is assigned again before it is read) and are
\* cleared.
NextSummary(r) ==
    /\ IF idx[r] < Len(articles_summaries[r])
       THEN /\ idx' = [idx EXCEPT ![r] = idx[r] + 1]
            /\ pc' = [pc EXCEPT ![r] = "exists"]
       ELSE /\ idx' = idx
            /\ pc' = [pc EXCEPT ![r] = "page_sleep"]
    /\ exists_result' = [exists_result EXCEPT ![r] = "none"]
    /\ detail_status' = [detail_status EXCEPT ![r] = "none"]
    /\ detail_data' = [detail_data EXCEPT ![r] = EmptyDict]
    /\ insert_status' = [insert_status EXCEPT ![r] = "none"]

\* create_table(), then the set-up of the walk.  A failure is logged and the
\* function returns normally.
CreateTable(r) ==
    /\ pc[r] = "start"
    /\ \E outcome \in DbChoices :
         /\ Inject(outcome)
         /\ create_status' = [create_status EXCEPT ![r] = outcome]
         /\ table_exists' = (table_exists \/ outcome = "ok")
         /\ pc' = [pc EXCEPT ![r] = After("create_table", outcome, "page")]
    /\ total_articles_fetched' = [total_articles_fetched EXCEPT ![r] = 0]
    /\ page_num' = [page_num EXCEPT ![r] = start_page]
    /\ preds' = [preds EXCEPT ![r] = {q \in Runs : pc[q] = "done"}]
    /\ UNCHANGED << start_page, end_page, store, articles_summaries, idx,
                    reported_total, exists_result, detail_status, detail_data,
                    insert_status, listing_log, insert_errors,
                    slept_since_listing, slept_since_detail, fn_vars >>

\* One iteration of the outer loop up to the inner loop: parse_listing_page,
\* the emptiness test and the count.
ParseListingPage(r) ==
    /\ pc[r] = "page"
    /\ InRange(page_num[r])
    /\ \E outcome \in FetchChoices :
         LET result == parse_listing_page(page_num[r], outcome) IN
         /\ Inject(outcome)
         /\ listing_log' = [listing_log EXCEPT ![r] =
                Append(@, [page |-> page_num[r], ok |-> (outcome = "200")])]
         /\ articles_summaries' = [articles_summaries EXCEPT ![r] = result]
         /\ IF result = <<>>
            THEN /\ page_num' = [page_num EXCEPT ![r] = on_empty_listing(page_num[r])]
                 /\ pc' = [pc EXCEPT ![r] = After("parse_listing_page", outcome, "page")]
                 /\ UNCHANGED << idx, total_articles_fetched >>
            ELSE /\ total_articles_fetched' =
                        [total_articles_fetched EXCEPT ![r] = count_summaries(@, result)]
                 /\ idx' = [idx EXCEPT ![r] = 1]
                 /\ pc' = [pc EXCEPT ![r] = "exists"]
                 /\ UNCHANGED page_num
    /\ slept_since_listing' = [slept_since_listing EXCEPT ![r] = FALSE]
    /\ UNCHANGED << start_page, end_page, table_exists, store, reported_total,
                    create_status, exists_result, detail_status, detail_data,
                    insert_status, insert_errors, preds,
                    slept_since_detail, fn_vars >>

\* The dedup gate: article_exists(postid).
ArticleExists(r) ==
    /\ pc[r] = "exists"
    /\ \E outcome \in DbChoices :
         LET result == article_exists(summary(r).postid, store, DbResult(outcome)) IN
         /\ Inject(outcome)
         /\ exists_result' = [exists_result EXCEPT ![r] = result]
         /\ pc' = [pc EXCEPT ![r] =
                After("article_exists", DbResult(outcome),
                      IF result = "found" THEN "skip" ELSE "detail")]
    /\ UNCHANGED << start_page, end_page, table_exists, store, page_num,
                    articles_summaries, idx, total_articles_fetched,
                    reported_total, create_status, detail_status, detail_data,
                    insert_status, listing_log, insert_errors, preds,
                    slept_since_listing, slept_since_detail, fn_vars >>

\* article_exists returned True: "Skipping article (already in DB)" is logged
\* and the loop continues (the article delay is skipped).
SkipArticle(r) ==
    /\ pc[r] = "skip"
    /\ NextSummary(r)
    /\ UNCHANGED << start_page, end_page, table_exists, store, page_num,
                    articles_summaries, total_articles_fetched, reported_total,
                    create_status, listing_log, insert_errors, preds, faults,
                    slept_since_listing, slept_since_detail, fn_vars >>

\* parse_article_content(summary["article_url"])
ParseArticleContent(r) ==
    /\ pc[r] = "detail"
    /\ \E outcome \in FetchChoices :
         /\ Inject(outcome)
         /\ detail_status' = [detail_status EXCEPT ![r] = outcome]
         /\ detail_data' = [detail_data EXCEPT ![r] =
                parse_article_content(outcome, DetailDocument(summary(r).article_url))]
         /\ pc' = [pc EXCEPT ![r] = After("parse_article_content", outcome, "insert")]
    /\ slept_since_detail' = [slept_since_detail EXCEPT ![r] = "pending"]
    /\ UNCHANGED << start_page, end_page, table_exists, store, page_num,
                    articles_summaries, idx, total_articles_fetched,
                    reported_total, create_status, exists_result,
                    insert_status, listing_log, insert_errors, preds,
                    slept_since_listing, fn_vars >>

\* The merge and insert_article(article_data).
InsertArticle(r) ==
    /\ pc[r] = "insert"
    /\ LET article_data == build_article_data(summary(r), detail_data[r]) IN
         \E outcome \in DbChoices :
           LET result == insert_article(article_data, store, DbResult(outcome)) IN
           /\ Inject(outcome)
           /\ store' = result.rows
           /\ insert_status' = [insert_status EXCEPT ![r] = result.status]
           /\ insert_errors' = [insert_errors EXCEPT ![r] =
                  @ \/ result.status \in {"Exception", "UniqueViolation"}]
           /\ pc' = [pc EXCEPT ![r] =
                  After("insert_article", DbResult(outcome), "article_sleep")]
    /\ UNCHANGED << start_page, end_page, table_exists, page_num,
                    articles_summaries, idx, total_articles_fetched,
                    reported_total, create_status, exists_result,
                    detail_status, detail_data, listing_log, preds,
                    slept_since_listing, slept_since_detail, fn_vars >>

\* time.sleep(0.5), the end of the iteration.
ArticleSleep(r) ==
    /\ pc[r] = "article_sleep"
    /\ NextSummary(r)
    /\ slept_since_detail' = [slept_since_detail EXCEPT ![r] = "slept"]
    /\ UNCHANGED << start_page, end_page, table_exists, store, page_num,
                    articles_summaries, total_articles_fetched, reported_total,
                    create_status, listing_log, insert_errors, preds, faults,
                    slept_since_listing, fn_vars >>

\* time.sleep(1) after the last summary of a page, then the next page of the
\* range.
PageSleep(r) ==
    /\ pc[r] = "page_sleep"
    /\ page_num' = [page_num EXCEPT ![r] = page_num[r] + step]
    /\ pc' = [pc EXCEPT ![r] = "page"]
    /\ slept_since_listing' = [slept_since_listing EXCEPT ![r] = TRUE]
    /\ UNCHANGED << start_page, end_page, table_exists, store,
                    articles_summaries, idx, total_articles_fetched,
                    reported_total, create_status, exists_result,
                    detail_status, detail_data, insert_status, listing_log,
                    insert_errors, preds, faults,
                    slept_since_detail, fn_vars >>

\* The range is exhausted: the total is logged and printed, the function
\* returns.
Finish(r) ==
    /\ pc[r] = "page"
    /\ ~InRange(page_num[r])
    /\ reported_total' = [reported_total EXCEPT ![r] = total_articles_fetched[r]]
    /\ pc' = [pc EXCEPT ![r] = "done"]
    /\ UNCHANGED << start_page, end_page, table_exists, store, page_num,
                    articles_summaries, idx, total_articles_fetched,
                    create_status, exists_result, detail_status, detail_data,
                    insert_status, listing_log, insert_errors, preds, faults,
                    slept_since_listing, slept_since_detail, fn_vars >>

RunStep(r) ==
    \/ CreateTable(r)
    \/ ParseListingPage(r)
    \/ ArticleExists(r)
    \/ SkipArticle(r)
    \/ ParseArticleContent(r)
    \/ InsertArticle(r)
    \/ ArticleSleep(r)
    \/ PageSleep(r)
    \/ Finish(r)

Next == \E r \in Runs : RunStep(r)

Spec == Init /\ [][Next]_vars

\* ---------------------------------------------------------------------------
\* The helpers called on their own
\* ---------------------------------------------------------------------------
\* The words date texts are made of: the twelve names the table replaces, a
\* day number, the standard name of May, and words in which a name of the
\* table runs into further letters.
DateWords ==
    {MOROCCAN_MONTHS_MAP[k][1] : k \in DOMAIN MOROCCAN_MONTHS_MAP}
      \cup { <<"3">>,
             <<"m","a","y","w">>,
             <<"m","a","y","n","a","y","r">>,
             <<"m","a","y","l","y","w","z">>,
             <<"m","a","y","w","l","y","w","z">> }

\* The words of the texts whose entries are applied in every order.
PermutedWords ==
    { <<"m","a","y">>,
      <<"g","x","t">>,
      <<"y","w","l","y","w","z">>,
      <<"m","a","y","l","y","w","z">>,
      <<"m","a","y","w","l","y","w","z">> }

\* The texts of at most n of the words, separated by single spaces.
RECURSIVE Texts(_, _)
Texts(words, n) ==
    IF n = 0 THEN {EmptyStr}
    ELSE LET shorter == Texts(words, n - 1) IN
         shorter \cup words
                 \cup {t \o <<" ">> \o w : t \in shorter \ {EmptyStr}, w \in words}

\* The parts URLs are made of.
UrlParts == { <<"a">>, <<"-">>, <<"7">>, DotHtml, <<"\n">> }

\* The strings of at most n of the parts.
RECURSIVE Urls(_)
Urls(n) ==
    IF n = 0 THEN {EmptyStr}
    ELSE LET shorter == Urls(n - 1) IN
         shorter \cup {u \o part : u \in shorter, part \in UrlParts}

\* One call of one helper: normalize_moroccan_months on a date text or on no
\* text, its loop with the entries taken in some order, or
\* extract_post_id_from_url on a string.
FnInit ==
    /\ start_page = 1
    /\ end_page = 1
    /\ NoRun
    /\ applied = {}
    /\ returned = Pending
    /\ \/ /\ call = "normalize_moroccan_months"
          /\ argument \in Texts(DateWords, MaxWords) \cup {None}
          /\ date_text = argument
       \/ /\ call = "items_in_some_order"
          /\ argument \in Texts(PermutedWords, MaxWords)
          /\ date_text = argument
       \/ /\ call = "extract_post_id_from_url"
          /\ argument \in Urls(MaxParts)
          /\ date_text = None

\* normalize_moroccan_months(date_text), the loop in the order of .items().
NormalizeMoroccanMonths ==
    /\ call = "normalize_moroccan_months"
    /\ returned = Pending
    /\ returned' = normalize_moroccan_months(argument)
    /\ UNCHANGED << scrape_vars, call, argument, date_text, applied >>

\* One iteration of the loop of normalize_moroccan_months, for an entry not
\* taken yet: date_text = date_text.replace(moroccan_name, standard_name).
ReplaceEntry(k) ==
    /\ call = "items_in_some_order"
    /\ Truthy(argument)
    /\ k \notin applied
    /\ date_text' = Replace(date_text, MOROCCAN_MONTHS_MAP[k][1],
                                       MOROCCAN_MONTHS_MAP[k][2])
    /\ applied' = applied \cup {k}
    /\ UNCHANGED << scrape_vars, call, argument, returned >>

\* `return date_text`: at once for a falsy argument, else after the last
\* entry.
ReturnDateText ==
    /\ call = "items_in_some_order"
    /\ returned = Pending
    /\ ~Truthy(argument) \/ applied = DOMAIN MOROCCAN_MONTHS_MAP
    /\ returned' = date_text
    /\ UNCHANGED << scrape_vars, call, argument, date_text, applied >>

\* extract_post_id_from_url(article_url)
ExtractPostIdFromUrl ==
    /\ call = "extract_post_id_from_url"
    /\ returned = Pending
    /\ returned' = extract_post_id_from_url(argument)
    /\ UNCHANGED << scrape_vars, call, argument, date_text, applied >>

FnNext ==
    \/ NormalizeMoroccanMonths
    \/ \E k \in DOMAIN MOROCCAN_MONTHS_MAP : ReplaceEntry(k)
    \/ ReturnDateText
    \/ ExtractPostIdFromUrl

FnSpec == FnInit /\ [][FnNext]_vars

\* ---------------------------------------------------------------------------
\* Properties
\* ---------------------------------------------------------------------------
\* Run r makes the step that calls insert_article.
InsertStep(r) == pc[r] = "insert" /\ pc'[r] = "article_sleep"

\* Run r makes the step that calls parse_listing_page.
ListingStep(r) == Len(listing_log'[r]) = Len(listing_log[r]) + 1

\* Run r makes the step that calls parse_article_content.
DetailStep(r) == pc[r] = "detail" /\ pc'[r] # "detail"

\* Run r makes the step that calls article_exists.
ExistsStep(r) == pc[r] = "exists" /\ pc'[r] # "exists"

\* A row with this postid is in the store.
Persisted(postid) == \E row \in store : row.postid = postid

\* The number of pages of the closed interval between start_page and end_page.
IntervalLen ==
    IF start_page > end_page THEN start_page - end_page + 1
    ELSE end_page - start_page + 1

\* The k-th page of the interval, walked from start_page towards end_page.
IntervalPage(k) ==
    IF start_page > end_page THEN start_page - (k - 1) ELSE start_page + (k - 1)

\* Every listing fetch of run r returned the page.
ListingsOk(r) == \A k \in 1..Len(listing_log[r]) : listing_log[r][k].ok

\* Run r met no failed listing fetch and no failed insert.
Clean(r) == ListingsOk(r) /\ ~insert_errors[r]

\* C1 (as claimed): when the detail fetch of a summary did not return 200, the
\* insert step that follows for that summary writes no record to the store.
C1_FailedDetailWritesNothing ==
    [][\A r \in Runs :
         (InsertStep(r) /\ detail_status[r] # "200") => store' = store]_vars

PagesLeft(r) ==
    IF pc[r] = "start" THEN IntervalLen + 1
    ELSE IF pc[r] = "done" \/ ~InRange(page_num[r]) THEN 0
    ELSE IF start_page > end_page THEN page_num[r] - end_page + 1
    ELSE end_page - page_num[r] + 1

\* How far run r is from the end of the iteration of the outer loop it is in:
\* five stages for each summary still to come, and the stage it stands at.
IterationLeft(r) ==
    CASE pc[r] = "page"          -> 99
      [] pc[r] = "exists"        -> 5 * (Len(articles_summaries[r]) - idx[r]) + 5
      [] pc[r] \in {"skip", "detail"} -> 5 * (Len(articles_summaries[r]) - idx[r]) + 4
      [] pc[r] = "insert"        -> 5 * (Len(articles_summaries[r]) - idx[r]) + 3
      [] pc[r] = "article_sleep" -> 5 * (Len(articles_summaries[r]) - idx[r]) + 2
      [] pc[r] = "page_sleep"    -> 1
      [] OTHER                   -> 0

\* A measure of the work run r has left; it is a natural number.
WorkLeft(r) == 100 * PagesLeft(r) + IterationLeft(r)

\* C5: whatever fails, no run is aborted (no exception leaves
\* scrape_hespress, and every step a run takes brings it nearer to its end);
\* a run that has ended has requested every page of the interval; and after
\* an article whose detail fetch or insert failed the run goes on with the
\* next summary of the same page when there is one.
C5_NoFailureAborts ==
    /\ [](\A r \in Runs :
            /\ pc[r] # "crashed"
            /\ pc[r] = "done" => Len(listing_log[r]) = IntervalLen
            /\ pc[r] \in {"exists", "skip", "detail", "insert", "article_sleep"}
                  => idx[r] \in 1..Len(articles_summaries[r])
            /\ IterationLeft(r) \in 0..99
            /\ PagesLeft(r) >= 0)
    /\ [][\A r \in Runs :
            /\ (pc'[r] # pc[r] \/ page_num'[r] # page_num[r] \/ idx'[r] # idx[r])
                  => WorkLeft(r)' < WorkLeft(r)
            /\ (/\ pc[r] = "article_sleep"
                /\ pc'[r] # "article_sleep"
                /\ (insert_status[r] = "Exception" \/ detail_status[r] # "200")
                /\ idx[r] < Len(articles_summaries[r]))
                   => /\ pc'[r] = "exists"
                      /\ idx'[r] = idx[r] + 1
                      /\ page_num'[r] = page_num[r]
                      /\ articles_summaries'[r] = articles_summaries[r]]_vars

\* A run over at least two pages has ended although one of its inserts failed.
C5_Witness ==
    \E r \in Runs :
        /\ pc[r] = "done"
        /\ insert_errors[r]
        /\ IntervalLen >= 2
        /\ Len(listing_log[r]) = IntervalLen

\* C6 (as claimed): a run whose create_table failed fetches no listing page,
\* fetches no detail page and attempts no insert.
C6_SchemaFailureAborts ==
    \A r \in Runs :
        create_status[r] = "Exception"
            => /\ listing_log[r] = <<>>
               /\ pc[r] \notin {"exists", "skip", "detail", "insert",
                                "article_sleep", "page_sleep"}

\* C7: at every step, no two rows of the store share a postid, and every row
\* that was in the store is still in it with every field as it was.
C7_WriteOnce ==
    [][/\ \A a, b \in store' : a.postid = b.postid => a = b
       /\ store \subseteq store']_vars

\* An insert met a row with its postid whose fields differ from the ones it
\* carried, and was absorbed.
C7_Witness ==
    \E r \in Runs :
        /\ pc[r] = "article_sleep"
        /\ insert_status[r] = "skipped"
        /\ \E row \in store :
              /\ row.postid = summary(r).postid
              /\ row # build_article_data(summary(r), detail_data[r])

\* C8: an insert made after an existence check that found no row, when a row
\* with that postid has been written since, leaves the store as it is (so the
\* first row is kept and the postid stays unique), ends without a unique
\* violation, and the run goes on to the article delay.
C8_StaleCheckInsertSafe ==
    [][\A r \in Runs :
         (/\ pc[r] = "insert"
          /\ pc'[r] # "insert"
          /\ exists_result[r] = "absent"
          /\ Persisted(summary(r).postid))
             => /\ store' = store
                /\ \A a, b \in store' : a.postid = b.postid => a = b
                /\ insert_status'[r] \in {"skipped", "Exception"}
                /\ insert_status'[r] = "Exception" => faults' = faults + 1
                /\ pc'[r] = "article_sleep"]_vars

\* A run's insert was absorbed after its own existence check had found no row.
C8_Witness ==
    \E r \in Runs :
        /\ pc[r] = "article_sleep"
        /\ exists_result[r] = "absent"
        /\ insert_status[r] = "skipped"
        /\ Truthy(summary(r).postid)

\* C9: the row an insert adds holds the detail page's raw date text, and the
\* date parsed from it, whenever the listing and the detail page both give a
\* non-empty text; it holds the listing's text only when the detail page's is
\* empty or the detail is missing.
C9_MergePrecedence ==
    [][\A r \in Runs :
         (InsertStep(r) /\ insert_status'[r] = "inserted")
            => \E row \in store' \ store :
                 LET d == Get(detail_data[r], "date_text_ar", None)
                     l == summary(r).date_text_ar
                 IN  /\ store' = store \cup {row}
                     /\ (Truthy(d) /\ Truthy(l))
                           => /\ row.date_text_ar = d
                              /\ row.date = parse_arabic_date(d)
                     /\ (row.date_text_ar # d) => (~Truthy(d) /\ row.date_text_ar = l)]_vars

\* A row was added for a summary whose listing and detail page give different
\* non-empty date texts.
C9_Witness ==
    \E r \in Runs :
        /\ pc[r] = "article_sleep"
        /\ insert_status[r] = "inserted"
        /\ Truthy(summary(r).date_text_ar)
        /\ Truthy(Get(detail_data[r], "date_text_ar", None))
        /\ summary(r).date_text_ar # Get(detail_data[r], "date_text_ar", None)

\* The summaries on the pages of log entries k..Len(log) whose fetch returned
\* the page.
RECURSIVE SummariesListed(_, _)
SummariesListed(log, k) ==
    IF k > Len(log) THEN 0
    ELSE (IF log[k].ok THEN Len(ExtractSummaries(ListingDocument(log[k].page))) ELSE 0)
         + SummariesListed(log, k + 1)

\* C10: the total a run reports at its end is the number of summaries on the
\* pages it fetched successfully, whatever became of each summary.
C10_TotalCountsSummaries ==
    \A r \in Runs :
        pc[r] = "done" => reported_total[r] = SummariesListed(listing_log[r], 1)

\* A run has reported more summaries than the store holds rows, after one of
\* its inserts failed.
C10_Witness ==
    \E r \in Runs :
        /\ pc[r] = "done"
        /\ insert_errors[r]
        /\ reported_total[r] = 4
        /\ Cardinality(store) < 4

\* C11 (as claimed): in every run the page delay (time.sleep(1)) has been slept
\* between any two consecutive listing fetches, and the article delay
\* (time.sleep(0.5)) between any two consecutive detail fetches, whatever the
\* pages and summaries in between were.  The code contradicts the first
\* half: the `continue` on a page without summaries (failed or empty) jumps
\* over time.sleep(1), so the next listing fetch follows at once.
C11_DelaysBetweenFetches ==
    [][\A r \in Runs :
         /\ (ListingStep(r) /\ listing_log[r] # <<>>) => slept_since_listing[r]
         /\ (DetailStep(r) /\ slept_since_detail[r] # "no_fetch")
               => slept_since_detail[r] = "slept"]_vars

\* The letters of the transliteration (the header of the module).
IsLetter(c) ==
    c \in {"y","n","a","r","f","b","m","s","A","l","w","z","g","x","t","k",
           "d","j","T"}

\* token stands in s at position i as a whole word: no letter adjoins it.
WholeWordAt(s, token, i) ==
    /\ MatchAt(s, token, i)
    /\ i = 1 \/ ~IsLetter(s[i - 1])
    /\ i + Len(token) > Len(s) \/ ~IsLetter(s[i + Len(token)])

\* token occurs in s as a whole word.
OccursAsWord(s, token) == \E i \in 1..Len(s) : WholeWordAt(s, token, i)

\* The name replaced by entry k of the table, and the name it is replaced by.
Variant(k) == MOROCCAN_MONTHS_MAP[k][1]

Canonical(k) == MOROCCAN_MONTHS_MAP[k][2]

\* s holds none of the names the table replaces.
NoVariant(s) == \A k \in DOMAIN MOROCCAN_MONTHS_MAP : ~Occurs(s, Variant(k))

\* normalize_moroccan_months has returned.
Normalized == call = "normalize_moroccan_months" /\ returned # Pending

\* C12 (as claimed): for every entry of the table and every text in which its
\* variant occurs, the text normalize_moroccan_months returns holds the
\* entry's canonical name; a text without any variant, an empty text and None
\* are returned unchanged.
C12_VariantYieldsCanonical ==
    Normalized =>
      /\ \A k \in DOMAIN MOROCCAN_MONTHS_MAP :
           (Truthy(argument) /\ Occurs(argument, Variant(k)))
             => Occurs(returned, Canonical(k))
      /\ (~Truthy(argument) \/ NoVariant(argument)) => returned = argument

\* C12 (amended): for every entry of the table and every text in which its
\* variant occurs as a whole word (no letter adjoins it), the text
\* normalize_moroccan_months returns holds the entry's canonical name; a text
\* without any variant, an empty text and None are returned unchanged.
C12_WholeWordYieldsCanonical ==
    Normalized =>
      /\ \A k \in DOMAIN MOROCCAN_MONTHS_MAP :
           (Truthy(argument) /\ OccursAsWord(argument, Variant(k)))
             => Occurs(returned, Canonical(k))
      /\ (~Truthy(argument) \/ NoVariant(argument)) => returned = argument

\* A text with two whole-word variants that are not their own canonical names
\* has been normalized and came back changed.
C12_Witness ==
    /\ Normalized
    /\ Truthy(argument)
    /\ \E j, k \in DOMAIN MOROCCAN_MONTHS_MAP :
         /\ j # k
         /\ Variant(j) # Canonical(j) /\ OccursAsWord(argument, Variant(j))
         /\ Variant(k) # Canonical(k) /\ OccursAsWord(argument, Variant(k))
    /\ returned # argument

\* Every occurrence of a name the table replaces is a whole word of s.
VariantsAreWords(s) ==
    \A k \in DOMAIN MOROCCAN_MONTHS_MAP : \A i \in 1..Len(s) :
        MatchAt(s, Variant(k), i) => WholeWordAt(s, Variant(k), i)

\* The loop with the entries taken in some order has returned.
Permuted == call = "items_in_some_order" /\ returned # Pending

\* C13 (as claimed): for every text, the loop of normalize_moroccan_months
\* returns the same text whatever the order in which the entries of the table
\* are taken, namely the text returned with the table's own order.
C13_OrderIndependent ==
    Permuted => returned = normalize_moroccan_months(argument)

\* C13 (amended): for every text in which each occurrence of a variant is a
\* whole word (no letter adjoins it), the loop returns the same text whatever
\* the order in which the entries are taken, namely the text returned with
\* the table's own order.
C13_WholeWordsOrderIndependent ==
    (Permuted /\ VariantsAreWords(argument))
      => returned = normalize_moroccan_months(argument)

\* All twelve entries have been applied, in some order, to a text of two
\* different whole-word variants, and the text returned differs from the
\* argument.
C13_Witness ==
    /\ Permuted
    /\ applied = DOMAIN MOROCCAN_MONTHS_MAP
    /\ VariantsAreWords(argument)
    /\ \E j, k \in DOMAIN MOROCCAN_MONTHS_MAP :
         /\ j # k
         /\ Variant(j) # Canonical(j) /\ Occurs(argument, Variant(j))
         /\ Variant(k) # Canonical(k) /\ Occurs(argument, Variant(k))
    /\ returned # argument

\* The length of the run of digits of u that ends at position e.
DigitsBefore(u, e) ==
    CHOOSE n \in 0..e :
        /\ \A k \in (e - n + 1)..e : IsDigit(u[k])
        /\ n = e \/ ~IsDigit(u[e - n])

\* u ends with a hyphen, one or more digits and ".html".
EndsWithIdHtml(u) ==
    /\ Len(u) >= Len(DotHtml) + 2
    /\ MatchAt(u, DotHtml, Len(u) - Len(DotHtml) + 1)
    /\ LET e == Len(u) - Len(DotHtml)
           n == DigitsBefore(u, e)
       IN  n >= 1 /\ n < e /\ u[e - n] = "-"

\* The run of digits before the final ".html" of u.
IdBeforeHtml(u) ==
    LET e == Len(u) - Len(DotHtml) IN SubSeq(u, e - DigitsBefore(u, e) + 1, e)

EmptyKeyRows == {row \in store : row.postid = EmptyStr}

\* Run r stands at a summary whose URL yields no postid.
Unresolvable(r) == summary(r).postid = EmptyStr

\* The gate and the store for summaries without a postid: article_exists
\* answers without a query and the detail fetch follows; the row is built
\* with the empty postid; the store never holds two rows with the empty
\* postid, and an insert under the empty key changes nothing once such a row
\* is there.
EmptyKeyGateAndStore ==
    /\ [](Cardinality(EmptyKeyRows) <= 1)
    /\ [][\A r \in Runs :
            /\ (ExistsStep(r) /\ Unresolvable(r))
                 => /\ exists_result'[r] = "no_query"
                    /\ pc'[r] = "detail"
                    /\ store' = store
            /\ (InsertStep(r) /\ Unresolvable(r))
                 => /\ detail_status[r] # "none"
                    /\ build_article_data(summary(r), detail_data[r]).postid = EmptyStr
                    /\ EmptyKeyRows # {} => store' = store
            /\ EmptyKeyRows \subseteq store']_vars

====
